---- MODULE Spec2Model ----
(***************************************************************************)
(* A model of hub (src/src/hub.ts): a namespaced wrapper around console.   *)
(*                                                                         *)
(* JavaScript strings whose structure the code inspects (namespaces, rule  *)
(* patterns, paths, stack lines) are sequences of characters, so that      *)
(* startsWith, endsWith, slice, split, trim and + are computed, not        *)
(* assumed.  What the code only passes on is one token: a styling escape   *)
(* ("<bold>"), an icon, a number printed.  Level names and method names    *)
(* are plain strings.                                                      *)
(***************************************************************************)
EXTENDS Integers, Sequences, FiniteSets, TLC

VARIABLES
  onOff,        \* hub.ts:73   the private ON/OFF switch
  env,          \* the process environment: HUB, DEBUG, INFO, WARN, ERROR, OFF,
                \* and whether the package was loaded through src/mod.ts
  DEBUGS_ALL,   \* hub.ts:39   set of debug rules
  DEBUGS_STAR,  \* hub.ts:40   prefixes of the rules ending in "*"
  DEFAULTS,     \* hub.ts:67   the default options (mutated by setup)
  cache,        \* hub.ts:70   Map ns -> instance, in insertion order
  instances,    \* the instance objects ever created by create(), by identity;
                \* obj is the identity of the options object an instance holds
  BUFFER,       \* hub.ts:43   buffer used by tests
  now,          \* performance.now(), in whole milliseconds
  marks,        \* performance.mark(ns): the latest mark of each namespace
  last          \* the last operation: its inputs and what it did

vars == <<onOff, env, DEBUGS_ALL, DEBUGS_STAR, DEFAULTS, cache, instances, BUFFER, now, marks, last>>

\* What LEVELS[n] is for an n outside the list
Undef == "undefined"

\* The level argument of hub(): left out, or a string (any string, "" and
\* "undefined" included)
NoLevel == [has |-> FALSE, l |-> ""]
Level(l) == [has |-> TRUE, l |-> l]

\* An optional string: has = FALSE is undefined
Some(s) == [has |-> TRUE, s |-> s]
None == [has |-> FALSE, s |-> <<>>]

----------------------------------------------------------------------------
(* Strings as sequences of characters                                      *)

StartsWith(s, p) == Len(p) <= Len(s) /\ SubSeq(s, 1, Len(p)) = p

EndsWithStar(s) == Len(s) > 0 /\ s[Len(s)] = "*"

DropLast(s) == SubSeq(s, 1, Len(s) - 1)

Range(s) == {s[k] : k \in 1..Len(s)}

\* sep occurs in s at position k
At(s, sep, k) == k + Len(sep) - 1 <= Len(s) /\ SubSeq(s, k, k + Len(sep) - 1) = sep

\* The pieces of s from position from on, the scan for sep standing at k
RECURSIVE SplitFrom(_, _, _, _)
SplitFrom(s, sep, from, k) ==
  IF k > Len(s) THEN <<SubSeq(s, from, Len(s))>>
  ELSE IF At(s, sep, k)
       THEN <<SubSeq(s, from, k - 1)>> \o SplitFrom(s, sep, k + Len(sep), k + Len(sep))
       ELSE SplitFrom(s, sep, from, k + 1)

\* s.split(sep) for a non-empty string sep: the pieces between its occurrences
SplitOn(s, sep) == SplitFrom(s, sep, 1, 1)

\* The characters \s of a regular expression and trim() take for white
\* space: space, tab, line feed, vertical tab, form feed, carriage return,
\* and the Unicode spaces and line terminators, written by their code points
WhiteSpace ==
  { " ", "\t", "\n", "\r", "\f", "U+000B", "U+00A0", "U+1680", "U+2000", "U+2001", "U+2002",
    "U+2003", "U+2004", "U+2005", "U+2006", "U+2007", "U+2008", "U+2009", "U+200A",
    "U+2028", "U+2029", "U+202F", "U+205F", "U+3000", "U+FEFF" }

\* /[\s,]/ matches the character
IsSep(t) == t \in WhiteSpace \cup {","}

\* s.trim(): white space removed at both ends
RECURSIVE Trim(_)
Trim(s) ==
  IF s = <<>> THEN s
  ELSE IF s[1] \in WhiteSpace THEN Trim(Tail(s))
  ELSE IF s[Len(s)] \in WhiteSpace THEN Trim(DropLast(s))
  ELSE s

\* s.split(/[\s,]+/): the pieces between maximal runs of separators
RECURSIVE SplitRules(_, _)
SplitRules(s, cur) ==
  IF s = <<>> THEN <<cur>>
  ELSE IF IsSep(s[1])
       THEN IF Len(s) > 1 /\ IsSep(s[2]) THEN SplitRules(Tail(s), cur)
            ELSE <<cur>> \o SplitRules(Tail(s), <<>>)
       ELSE SplitRules(Tail(s), Append(cur, s[1]))

ParseRules(debugs) == SplitRules(Trim(debugs), <<>>)

----------------------------------------------------------------------------
(* Levels                                                                  *)

LEVELS == <<"debug", "info", "warn", "error", "log", "off">>

\* LEVELS.indexOf(l): the 0-based index, -1 when l is no level name
IndexOf(l) == IF \E k \in 1..Len(LEVELS) : LEVELS[k] = l
              THEN (CHOOSE k \in 1..Len(LEVELS) : LEVELS[k] = l) - 1
              ELSE -1

\* LEVELS[n]
LevelAt(n) == IF n \in 0..(Len(LEVELS) - 1) THEN LEVELS[n + 1] ELSE Undef

----------------------------------------------------------------------------
(* color(): djb2 (XOR version) of the namespace, modulo the palette        *)

COLORS == <<"red", "yellow", "blue", "magenta", "cyan">>

\* c.charCodeAt(0) of the characters the model's namespaces are made of
CharCode(c) ==
  CASE c = "*" -> 42  [] c = ":" -> 58  [] c = "a" -> 97  [] c = "b" -> 98
    [] c = "f" -> 102 [] c = "o" -> 111 [] c = "r" -> 114 [] c = "p" -> 112
    [] c = "k" -> 107 [] c = "g" -> 103 [] c = "2" -> 50  [] c = "t" -> 116
    [] c = "e" -> 101 [] c = "s" -> 115

Two16 == 65536

\* a ^ b on bit patterns
RECURSIVE BitXor(_, _)
BitXor(a, b) ==
  IF a = 0 THEN b
  ELSE IF b = 0 THEN a
  ELSE (((a % 2) + (b % 2)) % 2) + 2 * BitXor(a \div 2, b \div 2)

\* djb2 with + in the place of ^
HashStepAdd(h, code) ==
  LET lo33 == h.lo * 33
      hi33 == h.hi * 33 + (lo33 \div Two16)
      lo   == (lo33 % Two16) + code
  IN [hi |-> (hi33 + (lo \div Two16)) % Two16, lo |-> lo % Two16]

\* One step h * 33 ^ code on a 32-bit pattern kept as two 16-bit halves
\* (the product is exact in a double and ^ keeps its low 32 bits).
HashStep(h, code) ==
  LET lo33 == h.lo * 33
      hi33 == h.hi * 33 + (lo33 \div Two16)
  IN [hi |-> hi33 % Two16, lo |-> BitXor(lo33 % Two16, code)]

RECURSIVE HashFrom(_, _)
HashFrom(h, s) == IF s = <<>> THEN h ELSE HashFrom(HashStep(h, CharCode(s[1])), Tail(s))

\* hash(s) >>> 0, seed 5381
Hash(s) == HashFrom([hi |-> 0, lo |-> 5381], s)

\* color(ns): Math.abs(hash(ns)) % COLORS.length  (65536 % 5 = 1)
color(ns) == LET h == Hash(ns) IN ((h.hi % Len(COLORS)) + (h.lo % Len(COLORS))) % Len(COLORS)

\* COLORS[i](text)
Paint(i, text) == <<"<", COLORS[i + 1], ">">> \o text \o <<"</>">>

\* color(ns, true, true): colors.bold(COLORS[i](ns))
ColorApply(ns) == <<"<bold>">> \o Paint(color(ns), ns) \o <<"</bold>">>

----------------------------------------------------------------------------
(* Paths and stack lines                                                   *)

\* The text of undefined where the code turns it into a string
UndefinedText == <<"u", "n", "d", "e", "f", "i", "n", "e", "d">>

Cwd == <<"/", "w">>

RECURSIVE NormSegs(_, _)
NormSegs(segs, acc) ==
  IF segs = <<>> THEN acc
  ELSE IF segs[1] = <<>> \/ segs[1] = <<".">> THEN NormSegs(Tail(segs), acc)
  ELSE IF segs[1] = <<".", ".">>
       THEN NormSegs(Tail(segs), IF acc = <<>> THEN acc ELSE DropLast(acc))
  ELSE NormSegs(Tail(segs), Append(acc, segs[1]))

RECURSIVE JoinSlash(_)
JoinSlash(segs) == IF segs = <<>> THEN <<>> ELSE <<"/">> \o segs[1] \o JoinSlash(Tail(segs))

\* resolve(p) of @std/path (posix): absolute and normalised, no trailing slash
Resolve(p) ==
  LET abs  == IF p # <<>> /\ p[1] = "/" THEN p ELSE Cwd \o <<"/">> \o p
      segs == NormSegs(SplitOn(abs, <<"/">>), <<>>)
  IN IF segs = <<>> THEN <<"/">> ELSE JoinSlash(segs)

\* line.split("file://")[1]
FileOf(line) ==
  CHOOSE f \in { IF Len(parts) >= 2 THEN Some(parts[2]) ELSE None :
                 parts \in {SplitOn(line, <<"f", "i", "l", "e", ":", "/", "/">>)} } : TRUE

\* line.split("/").pop()?.split(":") destructured into [b, l]
BaseLine(line) ==
  CHOOSE bl \in { [b |-> parts[1], l |-> IF Len(parts) >= 2 THEN parts[2] ELSE UndefinedText] :
                  parts \in {SplitOn(segs[Len(segs)], <<":">>) : segs \in {SplitOn(line, <<"/">>)}} } : TRUE

\* "[" + b + ":" + l + "]"
FileLineText(line) ==
  CHOOSE t \in { <<"[">> \o bl.b \o <<":">> \o bl.l \o <<"]">> : bl \in {BaseLine(line)} } : TRUE

----------------------------------------------------------------------------
(* Options: an object is a function from the keys it has to their values   *)

ICONS == <<"debug-icon", "info-icon", "warn-icon", "error-icon", "log-icon", "off-icon">>

\* The icons option: an icon list, a single string (its UTF-16 units), or a boolean
IconList(items) == [kind |-> "list", items |-> items, on |-> TRUE]
IconString(units) == [kind |-> "string", items |-> units, on |-> units # <<>>]
IconBool(b) == [kind |-> "bool", items |-> <<>>, on |-> b]

\* new Options()
NewOptions ==
  [buffer |-> FALSE, compact |-> TRUE, defaultLevel |-> "info", fileLine |-> TRUE,
   icons |-> IconList(ICONS), root |-> <<>>, timeDiff |-> TRUE]

NoOptions == [k \in {} |-> FALSE]

Has(o, k) == k \in DOMAIN o

\* Object.assign(target, source)
Assign(target, source) ==
  [k \in DOMAIN target \cup DOMAIN source |-> IF k \in DOMAIN source THEN source[k] ELSE target[k]]

\* options.k ?? DEFAULTS.k
OptionOr(options, k) == IF Has(options, k) THEN options[k] ELSE DEFAULTS[k]

\* A JavaScript value passed to a logging method: its typeof and its text
StrV(s) == [t |-> "string", v |-> s]
ObjV(s) == [t |-> "object", v |-> s]
NumV(s) == [t |-> "number", v |-> s]

\* util.inspect(a, inspectOptions): a one-line string
Inspect(a) == StrV(<<"inspect(">> \o a.v \o <<")">>)

----------------------------------------------------------------------------
(* parameters(): the argument list handed to the sink                      *)

BufferCap == 1000

\* hub.ts:123  the guard on the length BUFFER.push returned
Overflow(length) == length > BufferCap

\* Array.prototype.toString: the items joined by ","
RECURSIVE JoinComma(_)
JoinComma(items) ==
  IF Len(items) <= 1 THEN items ELSE <<items[1], ",">> \o JoinComma(Tail(items))

\* (icons.at(level) ?? icons) + " ": a boolean has no at(); a list gives its
\* entry, a string its UTF-16 unit at the index (a negative index counts
\* from the end), and outside the list or string the whole of it is used
IconText(icons, level) ==
  LET k == IF level >= 0 THEN level + 1 ELSE Len(icons.items) + level + 1
  IN IF icons.kind = "bool" THEN [threw |-> "TypeError", text |-> <<>>]
     ELSE IF k \in 1..Len(icons.items)
          THEN [threw |-> "none", text |-> <<icons.items[k], " ">>]
          ELSE [threw |-> "none",
                text |-> (IF icons.kind = "list" THEN JoinComma(icons.items) ELSE icons.items) \o <<" ">>]

\* "+" + performance.measure(ns, ns).duration.toFixed(2) + "ms", in the namespace's colour
TimeText(st, ns) == Paint(color(ns), <<"+", ToString(now - st.marks[ns]), ".00", "ms">>)

\* hub.ts:118  performance.mark(ns) runs whether or not timeDiff is on
MarkAfter(timeDiff) == TRUE

\* A buffer option read like the other options
BufferOnOverride(options) == OptionOr(options, "buffer")

\* hub.ts:121  options.buffer || DEFAULTS.buffer
BufferOn(options) == (Has(options, "buffer") /\ options.buffer) \/ DEFAULTS.buffer

\* The state parameters() reads and writes, as it is when a call starts
Before == [len |-> Len(BUFFER), marks |-> marks]

\* parameters(args, ns, level, options, line) run in the state st: the length
\* of BUFFER and the marks (one call of a method can run it more than once).
\* performance.measure(ns, ns) raises a DOMException when ns has no mark,
\* which only a direct call of parameters() can meet: create() marks.
parameters(st, args, ns, level, options, line) ==
  LET prefix0  == IF ns = <<"*">> THEN <<>> ELSE ColorApply(ns)
      fileLine == OptionOr(options, "fileLine")
      prefix1  == IF fileLine
                  THEN <<"<u>">> \o FileLineText(line.s) \o <<"</u>", " ">> \o prefix0
                  ELSE prefix0
      icons    == OptionOr(options, "icons")
      icon     == IF icons.on THEN IconText(icons, level) ELSE [threw |-> "none", text |-> <<>>]
      prefix   == icon.text \o prefix1
      compact  == OptionOr(options, "compact")
      args1    == IF compact
                  THEN [k \in 1..Len(args) |-> IF args[k].t = "object" THEN Inspect(args[k]) ELSE args[k]]
                  ELSE args
      args2    == IF Len(args1) > 0 /\ args1[1].t = "string"
                  THEN <<StrV(prefix \o (IF ns = <<"*">> THEN <<>> ELSE <<" ">>) \o args1[1].v)>> \o Tail(args1)
                  ELSE <<StrV(prefix)>> \o args1
      timeDiff == OptionOr(options, "timeDiff")
      args3    == IF timeDiff THEN Append(args2, StrV(TimeText(st, ns))) ELSE args2
      buffer   == BufferOn(options)
      length   == IF buffer THEN st.len + 1 ELSE 0
      full     == Overflow(length)
  IN IF fileLine /\ ~line.has
       THEN [threw |-> "TypeError", args |-> <<>>, push |-> <<>>, marked |-> FALSE]
     ELSE IF icon.threw # "none"
       THEN [threw |-> icon.threw, args |-> <<>>, push |-> <<>>, marked |-> FALSE]
     ELSE IF timeDiff /\ ns \notin DOMAIN st.marks
       THEN [threw |-> "DOMException", args |-> <<>>, push |-> <<>>, marked |-> FALSE]
     ELSE CHOOSE r \in { [threw  |-> IF full THEN "Error" ELSE "none",
                          args   |-> IF full THEN <<>> ELSE a,
                          push   |-> IF buffer THEN <<[level |-> LevelAt(level), args |-> a]>> ELSE <<>>,
                          marked |-> MarkAfter(timeDiff)] : a \in {args3} } : TRUE

----------------------------------------------------------------------------
(* The rules, the cache and create()                                       *)

Root == <<"*">>

\* DEBUGS_STAR as built from a list of rules: the rules ending in "*", without it
RECURSIVE StarsOf(_)
StarsOf(rules) ==
  IF rules = <<>> THEN <<>>
  ELSE (IF EndsWithStar(rules[1]) THEN <<DropLast(rules[1])>> ELSE <<>>) \o StarsOf(Tail(rules))

\* The elements of a Set built from a list, in insertion order
RECURSIVE Distinct(_, _)
Distinct(list, seen) ==
  IF list = <<>> THEN <<>>
  ELSE IF list[1] \in seen THEN Distinct(Tail(list), seen)
  ELSE <<list[1]>> \o Distinct(Tail(list), seen \cup {list[1]})

\* Matching that forgets the prefix rules
IsDebugExact(ns) == ns \in DEBUGS_ALL \/ Root \in DEBUGS_ALL

\* hub.ts:147  whether a debug rule matches the namespace
IsDebug(ns) ==
  \/ ns \in DEBUGS_ALL
  \/ Root \in DEBUGS_ALL
  \/ \E k \in 1..Len(DEBUGS_STAR) : StartsWith(ns, DEBUGS_STAR[k])

\* hub.ts:148  the ordinal a new instance starts with
InitialN(ns) == IndexOf(IF IsDebug(ns) THEN "debug" ELSE DEFAULTS.defaultLevel)

\* hub.ts:165  how many of LEVELS get a gated method
MaxMethods == IF env.HUB = Some(<<"log">>) THEN 5 ELSE 4

\* hub.ts:154  a truthy root is resolved
ResolveRoot(options) ==
  IF Has(options, "root") /\ options.root # <<>>
  THEN [options EXCEPT !.root = Resolve(options.root)]
  ELSE options

\* create(ns, options): the new instance object; options is the object with
\* the identity obj, resolved in place and kept (hub.ts:184)
create(ns, options, obj) ==
  [ns |-> ns, n |-> InitialN(ns), max |-> MaxMethods, options |-> ResolveRoot(options), obj |-> obj]

CacheHas(ns) == \E k \in 1..Len(cache) : cache[k].ns = ns

CacheGet(ns) == cache[CHOOSE k \in 1..Len(cache) : cache[k].ns = ns].id

\* Map.set: a new key goes last, an existing key keeps its place
CacheSet(c, ns, id) ==
  IF \E k \in 1..Len(c) : c[k].ns = ns
  THEN [k \in 1..Len(c) |-> IF c[k].ns = ns THEN [ns |-> ns, id |-> id] ELSE c[k]]
  ELSE Append(c, [ns |-> ns, id |-> id])

\* A lookup in which the instance registered last wins
findInstanceLast(filename) ==
  LET hit(k) == StartsWith(filename,
                           IF Has(instances[cache[k].id].options, "root")
                           THEN instances[cache[k].id].options.root
                           ELSE UndefinedText)
  IN IF \E k \in 1..Len(cache) : hit(k)
     THEN cache[CHOOSE k \in 1..Len(cache) : hit(k) /\ \A j \in (k + 1)..Len(cache) : ~hit(j)].id
     ELSE 0

\* findInstance(filename): the first cached instance whose root prefixes it, 0 if none
findInstance(filename) ==
  LET hit(k) == StartsWith(filename,
                           IF Has(instances[cache[k].id].options, "root")
                           THEN instances[cache[k].id].options.root
                           ELSE UndefinedText)
  IN IF \E k \in 1..Len(cache) : hit(k)
     THEN cache[CHOOSE k \in 1..Len(cache) : hit(k) /\ \A j \in 1..(k - 1) : ~hit(j)].id
     ELSE 0

----------------------------------------------------------------------------
(* The methods of an instance                                              *)

Gated == <<"debug", "info", "warn", "error", "log">>

\* The stack line seen by an instance called from the root's method (hub.ts:175)
HubLine ==
  Some(<<"a", "t", " ", "f", "i", "l", "e", ":", "/", "/", "/", "l", "i", "b", "/", "s", "r", "c", "/", "h", "u", "b", ".", "t", "s", ":", "1", "7", "5", ":", "4", "5">>)

\* The stack line seen by ROOT's log when mod.ts's console.log calls it (mod.ts:12)
ModLine ==
  Some(<<"a", "t", " ", "f", "i", "l", "e", ":", "/", "/", "/", "l", "i", "b", "/", "m", "o", "d", ".", "t", "s", ":", "1", "2", ":", "6", "6">>)

Quiet(id, hops) == [threw |-> "none", sink |-> <<>>, push |-> <<>>, marked |-> {}, handler |-> id, hops |-> hops]

Thrown(what, id, hops) == [Quiet(id, hops) EXCEPT !.threw = what]

\* performance.mark(ns) for every ns of moved
MarkAll(ms, moved) == [k \in DOMAIN ms \cup moved |-> IF k \in moved THEN now ELSE ms[k]]

\* The namespaces whose mark a run p of parameters() for ns has moved
Moved(p, ns) == IF p.marked THEN {ns} ELSE {}

\* The state a run p of parameters() for ns leaves behind
After(st, p, ns) ==
  [len |-> st.len + Len(p.push), marks |-> MarkAll(st.marks, Moved(p, ns))]

\* (c as any)[l](...parameters(args, ns, i, options, line)): a call that passed the gate
emit(st, id, m, args, line, hops) ==
  LET inst == instances[id]
  IN CHOOSE r \in { [threw |-> p.threw,
                     sink |-> IF p.threw = "none" THEN <<[m |-> m, args |-> p.args]>> ELSE <<>>,
                     push |-> p.push, marked |-> Moved(p, inst.ns),
                     handler |-> id, hops |-> hops] :
                    p \in {parameters(st, args, inst.ns, IndexOf(m), inst.options, line)} } : TRUE

\* n < i instead of n <= i
gateStrict(st, id, m, args, line, hops) ==
  IF instances[id].n < IndexOf(m) /\ onOff THEN emit(st, id, m, args, line, hops) ELSE Quiet(id, hops)

\* an unknown level treated as closed
gateKnown(st, id, m, args, line, hops) ==
  IF 0 <= instances[id].n /\ instances[id].n <= IndexOf(m) /\ onOff
  THEN emit(st, id, m, args, line, hops) ELSE Quiet(id, hops)

\* hub.ts:178  n <= i && onOff ? c[l](...parameters(...)) : () => {}
gate(st, id, m, args, line, hops) ==
  IF instances[id].n <= IndexOf(m) /\ onOff THEN emit(st, id, m, args, line, hops) ELSE Quiet(id, hops)

\* A trace that an instance at off keeps silent
traceLevel(id, args, hops) ==
  IF onOff /\ instances[id].n # 5
  THEN [Quiet(id, hops) EXCEPT !.sink = <<[m |-> "trace", args |-> args]>>]
  ELSE Quiet(id, hops)

\* hub.ts:181  instance.trace = (...args) => onOff ? c.trace(...args) : undefined
trace(id, args, hops) ==
  IF onOff
  THEN [Quiet(id, hops) EXCEPT !.sink = <<[m |-> "trace", args |-> args]>>]
  ELSE Quiet(id, hops)

\* hub.ts:215  if (rootLevel) console = ROOT: with a non-empty HUB the global
\* console is the ROOT object
ConsoleIsRoot == env.HUB.has /\ env.HUB.s[1] # ""

\* mod.ts:12  if (Deno.env.has("HUB")) console.log = ...: the package was
\* loaded through mod.ts and HUB is set, to the empty string or not
Wrapped == env.mod /\ env.HUB.has

\* mod.ts:12 has replaced the log of this instance: console.log is wrapped
\* and the console is the ROOT object, the instance module load created
Replaced(id) == id = 1 /\ Wrapped /\ ConsoleIsRoot

\* hub.ts:172-175  the instance to which the method m of instance id hands a
\* call made from `line`, 0 when it keeps the call
handsTo(id, m, line) ==
  LET inst == instances[id]
      own  == \E k \in 1..inst.max : Gated[k] = m
      file == FileOf(line.s)
  IN IF own /\ inst.ns = Root /\ line.has /\ file.has THEN findInstance(file.s) ELSE 0

RECURSIVE invoke(_, _, _, _, _, _, _)

\* The method m the instance was given by create(): a closure for the first
\* max of LEVELS and for trace, the sink's own method otherwise.  The root
\* instance hands the call to the instance found for the caller's file, which
\* can be itself; then the next call is made from hub.ts:175.  prev is the
\* length BUFFER had when the instance last handed the call to itself (-1
\* when it has not): when it does so again and nothing was pushed in
\* between, the call repeats itself until the stack is exhausted, a
\* RangeError.
method(st, id, m, args, line, hops, prev) ==
  LET inst == instances[id]
      own  == \E k \in 1..inst.max : Gated[k] = m
      file == FileOf(line.s)
      found == handsTo(id, m, line)
  IN IF m = "trace" THEN trace(id, args, hops)
     ELSE IF ~own
       THEN [Quiet(id, hops) EXCEPT !.sink = <<[m |-> m, args |-> args]>>]
     ELSE IF inst.ns = Root /\ ~line.has THEN Thrown("TypeError", id, hops)
     ELSE IF inst.ns = Root /\ ~file.has /\ Len(cache) > 0 THEN Thrown("TypeError", id, hops)
     ELSE IF found # 0
       THEN IF found = id /\ st.len = prev THEN Thrown("RangeError", id, hops)
            ELSE invoke(st, found, m, args, HubLine, hops + 1, IF found = id THEN st.len ELSE prev)
     ELSE gate(st, id, m, args, line, hops)

\* mod.ts:11-12  console.log = (...args) => log(...parameters(args, "*", 5)),
\* log being what console.log was.  One round of it, x holding the state and
\* the arguments it starts from and, in res, what the call has done so far:
\* parameters() runs with the default options and without a line, whatever
\* the switch and the level are, and what it returns goes to the former log.
\* That is the console's own log (handler 0) when the console is not the
\* ROOT object, else the log of ROOT, called from mod.ts:12; when ROOT hands
\* the call to itself (hub.ts:175) the log it calls is this function again,
\* a further round, endless (a RangeError) when a round pushes nothing.
Round(x) ==
  CHOOSE r \in
    { IF y.done THEN y
      ELSE CHOOSE z \in
        { IF pa.p.threw # "none"
            THEN [y EXCEPT !.done = TRUE, !.res = [pa.acc EXCEPT !.threw = pa.p.threw]]
          ELSE IF ~ConsoleIsRoot
            THEN [y EXCEPT !.done = TRUE,
                           !.res = [pa.acc EXCEPT !.sink = <<[m |-> "log", args |-> pa.p.args]>>]]
          ELSE IF handsTo(1, "log", ModLine) = 1
            THEN IF pa.p.push = <<>>
                 THEN [y EXCEPT !.done = TRUE,
                                !.res = [pa.acc EXCEPT !.threw = "RangeError", !.hops = @ + 1]]
                 ELSE [done |-> FALSE, st |-> After(y.st, pa.p, Root), args |-> pa.p.args,
                       res |-> [pa.acc EXCEPT !.hops = @ + 1]]
          ELSE [y EXCEPT !.done = TRUE,
                         !.res = [method(After(y.st, pa.p, Root), 1, "log", pa.p.args, ModLine,
                                         pa.acc.hops, -1)
                                    EXCEPT !.push = pa.acc.push \o @, !.marked = pa.acc.marked \cup @]] :
          pa \in {[p |-> q, acc |-> [y.res EXCEPT !.push = @ \o q.push, !.marked = @ \cup Moved(q, Root)]] :
                    q \in {parameters(y.st, y.args, Root, 5, DEFAULTS, None)}} } : TRUE :
      y \in {x} } : TRUE

\* k rounds, or as many as the call takes to end
RECURSIVE Rounds(_, _)
Rounds(x, k) ==
  IF k <= 1 THEN Round(x)
  ELSE CHOOSE r \in {IF y.done THEN y ELSE Rounds(y, k - (k \div 2)) : y \in {Rounds(x, k \div 2)}} : TRUE

\* A call of mod.ts's console.log: every round that hands the call on has
\* pushed an entry, so the round that makes BUFFER longer than BufferCap,
\* raising at hub.ts:123, comes after BufferCap + 1 - st.len rounds at most
consoleLog(st, args, hops) ==
  Rounds([done |-> FALSE, st |-> st, args |-> args,
          res |-> Quiet(IF ConsoleIsRoot THEN 1 ELSE 0, hops)],
         IF st.len >= BufferCap THEN 1 ELSE BufferCap + 1 - st.len).res

\* instance[m](...args): what one call does
invoke(st, id, m, args, line, hops, prev) ==
  IF m = "log" /\ Replaced(id) THEN consoleLog(st, args, hops)
  ELSE method(st, id, m, args, line, hops, prev)

----------------------------------------------------------------------------
(* Operations                                                              *)

Ids == 1..Len(instances)

\* A switch implemented by overwriting the levels
SwitchLevels(b) ==
  /\ onOff' = b
  /\ instances' = [k \in DOMAIN instances |-> [instances[k] EXCEPT !.n = IF b THEN 0 ELSE 5]]
  /\ last' = [op |-> "switch", b |-> b]
  /\ UNCHANGED <<env, DEBUGS_ALL, DEBUGS_STAR, DEFAULTS, cache, BUFFER, now, marks>>

\* hub(true) / hub(false)                                       hub.ts:202
Switch(b) ==
  /\ onOff' = b
  /\ last' = [op |-> "switch", b |-> b]
  /\ UNCHANGED <<env, DEBUGS_ALL, DEBUGS_STAR, DEFAULTS, cache, instances, BUFFER, now, marks>>

\* A lookup that never uses the cache
MustCreateAlways(ns, force) == TRUE

\* A lookup that ignores force
MustCreateCold(ns, force) == ~CacheHas(ns)

\* hub.ts:204  whether hub() creates an instance
MustCreate(ns, force) == ~CacheHas(ns) \/ force

\* hub(ns, level, options, force)                               hub.ts:203-208
\* options is the content of the object passed and obj its identity: 0 for
\* an object no instance holds, else the one some instances hold.  A new
\* instance keeps the object it was created with (resolved in place); a
\* cached one gets the options assigned into the object it holds; every
\* instance holding the object written sees the change.
HubWith(ns, level, obj, options, force) ==
  LET fresh == MustCreate(ns, force)
      id    == IF fresh THEN Len(instances) + 1 ELSE CacheGet(ns)
      held  == IF fresh THEN (IF obj = 0 THEN id ELSE obj) ELSE instances[id].obj
      value == IF fresh THEN ResolveRoot(options) ELSE Assign(instances[id].options, options)
      seen  == [k \in DOMAIN instances |->
                  IF instances[k].obj = held THEN [instances[k] EXCEPT !.options = value]
                  ELSE instances[k]]
      base  == IF fresh THEN create(ns, options, held) ELSE seen[id]
      inst  == IF level.has /\ level.l # "" THEN [base EXCEPT !.n = IndexOf(level.l)] ELSE base
  IN /\ instances' = IF fresh THEN Append(seen, inst) ELSE [seen EXCEPT ![id] = inst]
     /\ cache' = IF fresh THEN CacheSet(cache, ns, id) ELSE cache
     /\ marks' = IF fresh THEN [k \in DOMAIN marks \cup {ns} |-> IF k = ns THEN now ELSE marks[k]]
                 ELSE marks
     /\ last' = [op |-> "hub", ns |-> ns, level |-> level, force |-> force, fresh |-> fresh, ret |-> id]
     /\ UNCHANGED <<onOff, env, DEBUGS_ALL, DEBUGS_STAR, DEFAULTS, BUFFER, now>>

\* hub(ns, level, {...}, force): called with an object of its own
Hub(ns, level, options, force) == HubWith(ns, level, 0, options, force)

\* hub(ns, level, o, force), o being the object the instance src holds
HubSame(ns, level, src, force) ==
  HubWith(ns, level, instances[src].obj, instances[src].options, force)

\* A setter that writes the level of every instance
SetLevelAll(id, l) ==
  /\ instances' = [k \in DOMAIN instances |-> [instances[k] EXCEPT !.n = IndexOf(l)]]
  /\ last' = [op |-> "level", id |-> id, level |-> l]
  /\ UNCHANGED <<onOff, env, DEBUGS_ALL, DEBUGS_STAR, DEFAULTS, cache, BUFFER, now, marks>>

\* instance.level = l                                           hub.ts:159
SetLevel(id, l) ==
  /\ instances' = [instances EXCEPT ![id].n = IndexOf(l)]
  /\ last' = [op |-> "level", id |-> id, level |-> l]
  /\ UNCHANGED <<onOff, env, DEBUGS_ALL, DEBUGS_STAR, DEFAULTS, cache, BUFFER, now, marks>>

\* A setup that derives the level of every instance again from the new
\* rules and default
SetupRederive(options, debugs) ==
  LET rules == ParseRules(debugs.s)
      keep  == ~debugs.has \/ debugs.s = <<>>
      all   == IF keep THEN DEBUGS_ALL ELSE Range(rules)
      stars == IF keep THEN DEBUGS_STAR ELSE StarsOf(rules)
      dbg(ns) == ns \in all \/ Root \in all \/ \E k \in 1..Len(stars) : StartsWith(ns, stars[k])
      deflt == Assign(DEFAULTS, options).defaultLevel
  IN /\ DEFAULTS' = Assign(DEFAULTS, options)
     /\ DEBUGS_ALL' = all
     /\ DEBUGS_STAR' = stars
     /\ instances' = [k \in DOMAIN instances |->
                        [instances[k] EXCEPT !.n = IndexOf(IF dbg(instances[k].ns) THEN "debug" ELSE deflt)]]
     /\ last' = [op |-> "setup", options |-> options, debugs |-> debugs]
     /\ UNCHANGED <<onOff, env, cache, BUFFER, now, marks>>

\* setup(options, debugs)                                       hub.ts:135-144
\* debugs is an optional string; undefined and "" leave the rules alone.
Setup(options, debugs) ==
  LET rules == ParseRules(debugs.s)
      keep  == ~debugs.has \/ debugs.s = <<>>
  IN /\ DEFAULTS' = Assign(DEFAULTS, options)
     /\ DEBUGS_ALL' = IF keep THEN DEBUGS_ALL ELSE Range(rules)
     /\ DEBUGS_STAR' = IF keep THEN DEBUGS_STAR ELSE StarsOf(rules)
     /\ last' = [op |-> "setup", options |-> options, debugs |-> debugs]
     /\ UNCHANGED <<onOff, env, cache, instances, BUFFER, now, marks>>

\* The clock advances by a millisecond; delay(n) is n of these
Tick ==
  /\ now' = now + 1
  /\ last' = [op |-> "tick"]
  /\ UNCHANGED <<onOff, env, DEBUGS_ALL, DEBUGS_STAR, DEFAULTS, cache, instances, BUFFER, marks>>

\* color(ns) called by a user of the module                     hub.ts:77-81
CallColor(ns) ==
  /\ last' = [op |-> "color", ns |-> ns, i |-> color(ns)]
  /\ UNCHANGED <<onOff, env, DEBUGS_ALL, DEBUGS_STAR, DEFAULTS, cache, instances, BUFFER, now, marks>>

\* instance[m](...args) called from the stack line `line`       hub.ts:169-181
Call(id, m, args, line) ==
  \E r \in {invoke(Before, id, m, args, line, 0, -1)} :
     /\ BUFFER' = BUFFER \o r.push
     /\ marks' = MarkAll(marks, r.marked)
     /\ last' = [op |-> "call", id |-> id, m |-> m, args |-> args, line |-> line, threw |-> r.threw,
                 sink |-> r.sink, pushed |-> Len(r.push), handler |-> r.handler, hops |-> r.hops]
     /\ UNCHANGED <<onOff, env, DEBUGS_ALL, DEBUGS_STAR, DEFAULTS, cache, instances, now>>

\* console.log(...args) on the global console, from the stack line `line`:
\* the log of ROOT when the console is the ROOT object (hub.ts:215), else
\* mod.ts's function when it has wrapped the console's log (mod.ts:12), else
\* the console's own log
ConsoleLog(args, line) ==
  IF ConsoleIsRoot THEN Call(1, "log", args, line)
  ELSE \E r \in {IF Wrapped THEN consoleLog(Before, args, 0)
                 ELSE [Quiet(0, 0) EXCEPT !.sink = <<[m |-> "log", args |-> args]>>]} :
     /\ BUFFER' = BUFFER \o r.push
     /\ marks' = MarkAll(marks, r.marked)
     /\ last' = [op |-> "console", args |-> args, line |-> line, threw |-> r.threw,
                 sink |-> r.sink, pushed |-> Len(r.push)]
     /\ UNCHANGED <<onOff, env, DEBUGS_ALL, DEBUGS_STAR, DEFAULTS, cache, instances, now>>

\* parameters(args, ns, level, options, line) called by a user of the module
\*                                                              hub.ts:93-126
Parameters(args, ns, level, options, line) ==
  \E p \in {parameters(Before, args, ns, level, options, line)} :
     /\ BUFFER' = BUFFER \o p.push
     /\ marks' = MarkAll(marks, Moved(p, ns))
     /\ last' = [op |-> "parameters", args |-> args, ns |-> ns, level |-> level, line |-> line,
                 threw |-> p.threw, ret |-> p.args, pushed |-> Len(p.push)]
     /\ UNCHANGED <<onOff, env, DEBUGS_ALL, DEBUGS_STAR, DEFAULTS, cache, instances, now>>

----------------------------------------------------------------------------
(* The state after the module is loaded                        hub.ts:30-73, 211-212 *)

Foo == <<"f", "o", "o">>
Bar == <<"b", "a", "r">>
Far == <<"f", "a", "r">>

\* Stack lines of callers: a module under /p, and one under /q
LinePkg ==
  Some(<<"a", "t", " ", "f", "i", "l", "e", ":", "/", "/", "/", "p", "/", "a", ".", "t", "s", ":", "7", ":", "1">>)
LineOther ==
  Some(<<"a", "t", " ", "f", "i", "l", "e", ":", "/", "/", "/", "q", "/", "b", ".", "t", "s", ":", "3", ":", "1">>)
PkgRoot == <<"/", "p">>

\* mod is whether the package was loaded through its entry point src/mod.ts
NoEnv ==
  [HUB |-> None, DEBUG |-> None, INFO |-> None, WARN |-> None, ERROR |-> None, OFF |-> None,
   mod |-> FALSE]

\* The state module load leaves for a given environment: the rules read from
\* DEBUG, the defaults, and ROOT = hub("*", rootLevel ?? "debug").
Loaded(e) ==
  LET rules == IF e.DEBUG.has THEN Distinct(ParseRules(e.DEBUG.s), {}) ELSE <<>>
      rootLevel == IF e.HUB.has THEN e.HUB.s[1] ELSE "debug"
  IN /\ env = e
     /\ onOff = TRUE
     /\ DEBUGS_ALL = Range(rules)
     /\ DEBUGS_STAR = StarsOf(rules)
     /\ DEFAULTS = NewOptions
     /\ BUFFER = <<>>
     /\ now = 0
     /\ marks = [k \in {Root} |-> 0]
     /\ instances = <<[ns |-> Root,
                       n |-> IF rootLevel # "" THEN IndexOf(rootLevel) ELSE InitialN(Root),
                       max |-> IF e.HUB = Some(<<"log">>) THEN 5 ELSE 4,
                       options |-> NoOptions, obj |-> 1]>>
     /\ cache = <<[ns |-> Root, id |-> 1]>>
     /\ last = [op |-> "load"]

----------------------------------------------------------------------------
(* Spec: levels, the switch, lookups and calls.  Every lookup is made      *)
(* without force; callers are modules with a file:// stack line.           *)

Methods == {"debug", "info", "warn", "error", "log", "trace"}

LevelNames == {"debug", "info", "warn", "error", "log", "off"}

OneArg == <<StrV(<<"m">>)>>

\* How many entries the buffer may hold before the model stops calling
MaxTrace == 1

\* HUB is unset (SpecLog has HUB = "log")
Init == Loaded(NoEnv)

DoSwitch == \E b \in BOOLEAN : Switch(b)

DoHub ==
  \E ns \in {Root, Foo}, level \in {NoLevel, Level(""), Level("warn"), Level("undefined")} :
    \E o \in IF ns = Root THEN {NoOptions} ELSE {NoOptions, [root |-> PkgRoot]} :
      Hub(ns, level, o, FALSE)

DoSetLevel == \E id \in Ids, l \in {"debug", "error", "log", "off", "bogus"} : SetLevel(id, l)

DoSetup == \E b \in BOOLEAN : Setup([buffer |-> b, fileLine |-> FALSE, timeDiff |-> FALSE], None)

DoCall ==
  \E id \in Ids, m \in Methods \ {"trace"} :
    Len(BUFFER) < MaxTrace /\ Call(id, m, OneArg, LinePkg)

Next == DoSwitch \/ DoHub \/ DoSetLevel \/ DoSetup \/ DoCall

Spec == Init /\ [][Next]_vars

----------------------------------------------------------------------------
(* SpecRules: the debug rules and the level a new instance starts with.    *)
(* The environment is any of a few; setup() replaces the rules; hub(ns)    *)
(* is called without a level.                                              *)

Pkg2 == <<"p", "k", "g", "2">>

\* How many instance objects the model lets create() make
MaxInstances == 3

RuleEnvs ==
  { NoEnv,
    [NoEnv EXCEPT !.DEBUG = Some(<<"f", "o", "o">>)],
    [NoEnv EXCEPT !.DEBUG = Some(<<"f", "*", ",", "b", "a", "r">>)],
    [NoEnv EXCEPT !.WARN = Some(<<"p", "k", "g", "2", "*">>)],
    [NoEnv EXCEPT !.OFF = Some(<<"*">>), !.DEBUG = Some(<<"f", "o", "o">>)] }

RuleStrings ==
  { None, Some(<<>>), Some(<<"*">>), Some(<<"f", "*">>), Some(<<"f", "o", "o">>),
    Some(<<"\t", "b", "a", "r", ",", " ", "p", "k", "*", "\n">>) }

InitRules == \E e \in RuleEnvs : Loaded(e)

DoSetupRules ==
  \E o \in {NoOptions, [defaultLevel |-> "warn"]}, d \in RuleStrings : Setup(o, d)

DoHubRules ==
  \E ns \in {Foo, Far, Bar, Pkg2}, force \in BOOLEAN :
    /\ MustCreate(ns, force) => Len(instances) < MaxInstances
    /\ Hub(ns, NoLevel, NoOptions, force)

NextRules == DoSetupRules \/ DoHubRules

SpecRules == InitRules /\ [][NextRules]_vars

----------------------------------------------------------------------------
(* SpecBuffer: one caller filling the buffer.  Buffering is switched on    *)
(* the way the tests do (setup with buffer, without file/line and time).   *)
(* With HUB unset ROOT's level moves between error and off, so that a call *)
(* to error is either emitted or suppressed; with HUB=log and the package  *)
(* loaded through mod.ts the caller calls log, at the level HUB gave ROOT. *)
(* parameters() is also called by the user, with the arguments of error.   *)

\* How many entries the buffer may hold before the model stops calling
MaxBuffered == 1002

BufferEnvs == {NoEnv, [NoEnv EXCEPT !.HUB = Some(<<"log">>), !.mod = TRUE]}

InitBuffer == \E e \in BufferEnvs : Loaded(e)

DoSetupBuffer == Setup([buffer |-> TRUE, fileLine |-> FALSE, timeDiff |-> FALSE], None)

DoLevelBuffer == ~Wrapped /\ \E l \in {"error", "off"} : SetLevel(1, l)

DoCallBuffer ==
  Len(BUFFER) < MaxBuffered /\ Call(1, IF Wrapped THEN "log" ELSE "error", OneArg, LineOther)

DoParametersBuffer ==
  /\ Len(BUFFER) < MaxBuffered /\ ~Wrapped
  /\ Parameters(OneArg, Root, 3, [buffer |-> TRUE, fileLine |-> FALSE, timeDiff |-> FALSE], LineOther)

NextBuffer == DoSetupBuffer \/ DoLevelBuffer \/ DoCallBuffer \/ DoParametersBuffer

SpecBuffer == InitBuffer /\ [][NextBuffer]_vars

----------------------------------------------------------------------------
(* SpecRoute: the root instance and the callers' files.  foo and bar are   *)
(* registered with or without a root (absolute, nested, relative, empty);  *)
(* ROOT and the instances are called from files under /p, /p/x and /q,     *)
(* and /p/xy, from a caller that is not a file, and without a stack line.  *)

SubRoot == <<"/", "p", "/", "x">>
RelRoot == <<".", ".", "/", "p">>

LineSub ==
  Some(<<"a", "t", " ", "f", "i", "l", "e", ":", "/", "/", "/", "p", "/", "x", "/", "c", ".", "t", "s", ":", "9", ":", "1">>)
LineEval == Some(<<"a", "t", " ", "e", "v", "a", "l", ":", "1", ":", "1">>)

\* The options foo and bar are registered with
RouteOptions(ns) ==
  IF ns = Foo THEN {NoOptions, [root |-> PkgRoot], [root |-> RelRoot]}
  ELSE {NoOptions, [root |-> SubRoot], [root |-> <<>>]}

\* A caller in /p/xy, a directory next to /p/x
LineNext ==
  Some(<<"a", "t", " ", "f", "i", "l", "e", ":", "/", "/", "/", "p", "/", "x", "y", "/", "e", ".", "t", "s", ":", "5", ":", "1">>)

RouteLines == {LinePkg, LineSub, LineNext, LineOther, LineEval, None}

\* How many entries the buffer may hold before the model stops calling
MaxRouted == 1

InitRoute == Loaded(NoEnv)

DoHubRoute ==
  \E ns \in {Foo, Bar}, level \in {NoLevel, Level("error")} :
    \E o \in RouteOptions(ns) : Hub(ns, level, o, FALSE)

DoLevelRoute == \E l \in {"debug", "off"} : SetLevel(1, l)

DoSetupRoute == Setup([buffer |-> TRUE, fileLine |-> FALSE, timeDiff |-> FALSE], None)

DoCallRoute ==
  \E id \in Ids, line \in RouteLines :
    Len(BUFFER) < MaxRouted /\ Call(id, "info", OneArg, line)

NextRoute == DoHubRoute \/ DoLevelRoute \/ DoSetupRoute \/ DoCallRoute

SpecRoute == InitRoute /\ [][NextRoute]_vars

----------------------------------------------------------------------------
(* SpecTrace: the buffer as the record of what was emitted.  Buffering is  *)
(* switched on the way the tests do; foo is at the default level, at debug *)
(* or at off; every method is called, on ROOT and on foo, from a file that *)
(* no registered root prefixes.                                            *)

\* Calls are made while the buffer holds no more entries than this
MaxTraceLen == 3

\* HUB unset; HUB = "debug" with the package loaded through mod.ts;
\* HUB = "log" with the package loaded from hub.ts or through mod.ts
TraceEnvs ==
  { NoEnv,
    [NoEnv EXCEPT !.HUB = Some(<<"debug">>), !.mod = TRUE],
    [NoEnv EXCEPT !.HUB = Some(<<"log">>)],
    [NoEnv EXCEPT !.HUB = Some(<<"log">>), !.mod = TRUE] }

InitTrace == \E e \in TraceEnvs : Loaded(e)

DoSetupTrace == Setup([buffer |-> TRUE, fileLine |-> FALSE, timeDiff |-> FALSE], None)

DoHubTrace == \E level \in {NoLevel, Level("debug"), Level("off")} : Hub(Foo, level, NoOptions, FALSE)

DoCallTrace ==
  \E id \in Ids, m \in Methods \ {"trace"} :
    Len(BUFFER) <= MaxTraceLen /\ Call(id, m, OneArg, LineOther)

NextTrace == DoSetupTrace \/ DoHubTrace \/ DoCallTrace

SpecTrace == InitTrace /\ [][NextTrace]_vars

----------------------------------------------------------------------------
(* SpecTime: the clock and the marks.  Time passes between the calls;      *)
(* timeDiff is switched on and off; foo is created, looked up and          *)
(* re-created, at the default level or at error, so that a call to info is *)
(* emitted or suppressed.  The package is loaded from hub.ts with HUB      *)
(* unset, or through mod.ts with HUB empty or HUB=log; console.log is      *)
(* called on the global console, and parameters() by the user, for "*",    *)
(* for foo and for a namespace that no instance has.                       *)

\* How far the clock runs
MaxNow == 3

TimeEnvs ==
  { NoEnv,
    [NoEnv EXCEPT !.HUB = Some(<<"">>), !.mod = TRUE],
    [NoEnv EXCEPT !.HUB = Some(<<"log">>), !.mod = TRUE] }

InitTime == \E e \in TimeEnvs : Loaded(e)

DoTick == now < MaxNow /\ Tick

DoSetupTime == \E t \in BOOLEAN : Setup([fileLine |-> FALSE, timeDiff |-> t], None)

DoHubTime ==
  \E level \in {NoLevel, Level("error")}, force \in BOOLEAN :
    /\ MustCreate(Foo, force) => Len(instances) < MaxInstances
    /\ Hub(Foo, level, NoOptions, force)

DoCallTime == \E id \in Ids : Call(id, "info", OneArg, LineOther)

DoConsoleTime == ConsoleLog(OneArg, LineOther)

DoParametersTime == \E ns \in {Root, Foo} : Parameters(OneArg, ns, 1, DEFAULTS, None)

NextTime == DoTick \/ DoSetupTime \/ DoHubTime \/ DoCallTime \/ DoConsoleTime \/ DoParametersTime

SpecTime == InitTime /\ [][NextTime]_vars

----------------------------------------------------------------------------
(* SpecArgs: the argument lists.  info is called on ROOT and on foo with   *)
(* no argument, a string, an object, null, a number, and lists of two;     *)
(* compact, fileLine and timeDiff are switched on and off.                 *)

ArgLists ==
  { <<>>, OneArg, <<ObjV(<<"o">>)>>, <<ObjV(<<"null">>)>>, <<NumV(<<"5">>)>>,
    <<StrV(<<"m">>), ObjV(<<"o">>)>>, <<NumV(<<"5">>), StrV(<<"m">>)>> }

InitArgs == Loaded(NoEnv)

DoSetupArgs ==
  \E c \in BOOLEAN, f \in BOOLEAN, t \in BOOLEAN :
    Setup([compact |-> c, fileLine |-> f, timeDiff |-> t], None)

DoHubArgs == Hub(Foo, NoLevel, NoOptions, FALSE)

DoCallArgs == \E id \in Ids, args \in ArgLists : Call(id, "info", args, LineOther)

NextArgs == DoSetupArgs \/ DoHubArgs \/ DoCallArgs

SpecArgs == InitArgs /\ [][NextArgs]_vars

----------------------------------------------------------------------------
(* SpecLevels: explicit levels, reconfiguration and forced re-creation.    *)
(* foo and bar are looked up with or without a level and with or without   *)
(* force; levels are set through every handle, old ones included; setup()  *)
(* changes the rules and the default level.                                *)

InitLevels == Loaded(NoEnv)

DoHubLevels ==
  \E ns \in {Foo, Bar}, level \in {NoLevel, Level("warn")}, force \in BOOLEAN :
    /\ MustCreate(ns, force) => Len(instances) < MaxInstances
    /\ Hub(ns, level, NoOptions, force)

DoSetLevels == \E id \in Ids, l \in {"error", "off"} : SetLevel(id, l)

DoSetupLevels ==
  \E o \in {NoOptions, [defaultLevel |-> "error"]},
     d \in {None, Some(<<"*">>), Some(<<"f", "o", "o">>), Some(<<"b", "*">>)} : Setup(o, d)

NextLevels == DoHubLevels \/ DoSetLevels \/ DoSetupLevels

SpecLevels == InitLevels /\ [][NextLevels]_vars

----------------------------------------------------------------------------
(* SpecColor: color() on every string of a few characters, long enough     *)
(* for the hash to leave 32 bits (5381 * 33^4 > 2^32).                     *)

\* The characters the strings are made of
Alphabet == {"*", ":", "a", "f", "o"}

\* The longest string
MaxNsLen == 5

Strings == UNION {[1..n -> Alphabet] : n \in 0..MaxNsLen}

InitColor == Loaded(NoEnv)

DoColor == \E ns \in Strings : last.op = "load" /\ CallColor(ns)

NextColor == DoColor

SpecColor == InitColor /\ [][NextColor]_vars

----------------------------------------------------------------------------
(* SpecIcons: the icons option, as a default and as an option of foo: a    *)
(* boolean, the default list, a list of two, a string of two units, the    *)
(* empty string.  The four methods are called on ROOT and on foo.          *)

IconChoices ==
  { IconBool(TRUE), IconBool(FALSE), IconList(ICONS), IconList(<<"A", "B">>),
    IconString(<<"h", "i">>), IconString(<<>>) }

InitIcons == Loaded(NoEnv)

DoSetupIcons ==
  \E x \in IconChoices : Setup([icons |-> x, fileLine |-> FALSE, timeDiff |-> FALSE], None)

DoHubIcons ==
  \E level \in {NoLevel, Level("debug")}, o \in {NoOptions} \cup {[icons |-> x] : x \in IconChoices} :
    Hub(Foo, level, o, FALSE)

DoCallIcons == \E id \in Ids, m \in {"debug", "info", "warn", "error"} : Call(id, m, OneArg, LineOther)

NextIcons == DoSetupIcons \/ DoHubIcons \/ DoCallIcons

SpecIcons == InitIcons /\ [][NextIcons]_vars

----------------------------------------------------------------------------
(* SpecOptions: the options of an instance against the defaults.  setup()  *)
(* switches the default buffer on and off and the other defaults all on or *)
(* all off; foo is given buffer alone, or every option on, or every option *)
(* off; bar is given the object foo holds; info is called on every         *)
(* instance with a string and an object.                                   *)

AllOff == [fileLine |-> FALSE, timeDiff |-> FALSE, compact |-> FALSE, icons |-> IconBool(FALSE)]
AllOn == [fileLine |-> TRUE, timeDiff |-> TRUE, compact |-> TRUE, icons |-> IconList(ICONS)]

TwoArgs == <<StrV(<<"m">>), ObjV(<<"o">>)>>

\* How many entries the buffer may hold before the model stops calling
MaxOptTrace == 1

InitOptions == Loaded(NoEnv)

DoSetupOptions ==
  \E o \in {[buffer |-> TRUE], [buffer |-> FALSE], AllOff, AllOn} : Setup(o, None)

DoHubOptions ==
  \E o \in {[buffer |-> TRUE], Assign(AllOff, [buffer |-> FALSE]), Assign(AllOn, [buffer |-> FALSE])} :
    Hub(Foo, NoLevel, o, FALSE)

\* bar is looked up with the options object foo holds
DoShareOptions == CacheHas(Foo) /\ HubSame(Bar, NoLevel, CacheGet(Foo), FALSE)

DoCallOptions ==
  \E id \in Ids : Len(BUFFER) < MaxOptTrace /\ Call(id, "info", TwoArgs, LineOther)

NextOptions == DoSetupOptions \/ DoHubOptions \/ DoShareOptions \/ DoCallOptions

SpecOptions == InitOptions /\ [][NextOptions]_vars

----------------------------------------------------------------------------
(* SpecSwitch: trace next to a gated method.  The switch goes on and off,  *)
(* ROOT and foo are set to debug and to off, buffering is switched on, the *)
(* clock advances, and trace and info are called with a string and an      *)
(* object.                                                                 *)

InitSwitch == Loaded(NoEnv)

DoSwitchTrace == \E b \in BOOLEAN : Switch(b)

DoHubSwitch == Hub(Foo, NoLevel, NoOptions, FALSE)

DoLevelSwitch == \E id \in Ids, l \in {"debug", "off"} : SetLevel(id, l)

DoSetupSwitch == Setup([buffer |-> TRUE], None)

DoTickSwitch == now < MaxNow /\ Tick

DoCallSwitch ==
  \E id \in Ids, m \in {"trace", "info"} :
    Len(BUFFER) < MaxTrace /\ Call(id, m, TwoArgs, LineOther)

NextSwitch ==
  DoSwitchTrace \/ DoHubSwitch \/ DoLevelSwitch \/ DoSetupSwitch \/ DoTickSwitch \/ DoCallSwitch

SpecSwitch == InitSwitch /\ [][NextSwitch]_vars

----------------------------------------------------------------------------
(* SpecSelf: root options on every instance, the root instance included.   *)
(* hub() assigns a root to "*" and to foo, or registers foo without one;   *)
(* the four methods are called on every instance from files under /p and   *)
(* /q, and log on ROOT, with HUB unset or with HUB=log and the package     *)
(* loaded through mod.ts; there setup() may switch the buffer on, and the  *)
(* calls are made while the buffer is empty.                               *)

\* "/" is a root that holds every file, the module's own file included
SelfRoots == {NoOptions, [root |-> PkgRoot], [root |-> <<"/">>]}

SelfEnvs == {NoEnv, [NoEnv EXCEPT !.HUB = Some(<<"log">>), !.mod = TRUE]}

InitSelf == \E e \in SelfEnvs : Loaded(e)

DoSetupSelf == Wrapped /\ Setup([buffer |-> TRUE, fileLine |-> FALSE, timeDiff |-> FALSE], None)

DoHubSelf ==
  \E ns \in {Root, Foo}, o \in SelfRoots : Hub(ns, NoLevel, o, FALSE)

DoLevelSelf == \E id \in Ids : SetLevel(id, "warn")

DoCallSelf ==
  /\ BUFFER = <<>>
  /\ \E id \in Ids, m \in {"debug", "info", "warn", "error", "log"} :
       \E line \in {LinePkg, LineOther} :
         /\ m = "log" => (id = 1 /\ line = LineOther)
         /\ Call(id, m, OneArg, line)

NextSelf == DoHubSelf \/ DoLevelSelf \/ DoSetupSelf \/ DoCallSelf

SpecSelf == InitSelf /\ [][NextSelf]_vars

----------------------------------------------------------------------------
(* SpecLog: log as a gated method.  HUB is "log"; the package is loaded    *)
(* from hub.ts or through mod.ts; the switch is turned off and on; foo is  *)
(* registered with or without the root /p, at the default level or at log; *)
(* levels are set; every method is called from a file under /p.            *)

LogEnvs ==
  { [NoEnv EXCEPT !.HUB = Some(<<"log">>)],
    [NoEnv EXCEPT !.HUB = Some(<<"log">>), !.mod = TRUE] }

InitLog == \E e \in LogEnvs : Loaded(e)

DoSwitchLog == \E b \in BOOLEAN : Switch(b)

DoHubLog ==
  \E level \in {NoLevel, Level("log")}, o \in {NoOptions, [root |-> PkgRoot]} :
    Hub(Foo, level, o, FALSE)

DoLevelLog == \E id \in Ids, l \in {"info", "log", "off"} : SetLevel(id, l)

DoSetupLog == \E b \in BOOLEAN : Setup([buffer |-> b, fileLine |-> FALSE, timeDiff |-> FALSE], None)

DoCallLog ==
  \E id \in Ids, m \in Methods \ {"trace"} :
    Len(BUFFER) < MaxTrace /\ Call(id, m, OneArg, LinePkg)

NextLog == DoSwitchLog \/ DoHubLog \/ DoLevelLog \/ DoSetupLog \/ DoCallLog

SpecLog == InitLog /\ [][NextLog]_vars

----------------------------------------------------------------------------
(* Claims checked under Spec                                               *)

FourMethods == {"debug", "info", "warn", "error"}

\* The last operation was a call of one of the four methods, switch on
FourCall == last.op = "call" /\ last.m \in FourMethods /\ onOff

\* C1 (as stated): for every instance whose level is L in {debug, info, warn,
\* error, off}, with the switch on, a call to m in {debug, info, warn, error}
\* invokes the sink's method m exactly once iff m >= L; at off nothing is
\* invoked and nothing is appended to the buffer.
C1_LevelGating ==
  (FourCall /\ instances[last.id].n \in {0, 1, 2, 3, 5}) =>
    LET L == instances[last.id].n
        i == IndexOf(last.m)
    IN /\ (i >= L) <=> (Len(last.sink) = 1 /\ last.sink[1].m = last.m)
       /\ L = 5 => (last.sink = <<>> /\ last.pushed = 0)

\* C1 (amended): the same, for every call the instance handles itself (one
\* that auto-discovery does not route to another instance) and that does not
\* raise.
C1_LevelGatingHandled ==
  (FourCall /\ last.hops = 0 /\ last.threw = "none" /\ instances[last.id].n \in {0, 1, 2, 3, 5}) =>
    LET L == instances[last.id].n
        i == IndexOf(last.m)
    IN /\ (i >= L) <=> (Len(last.sink) = 1 /\ last.sink[1].m = last.m)
       /\ L = 5 => (last.sink = <<>> /\ last.pushed = 0)

\* ROOT at level warn, with foo registered, emits an error call it handles itself
C1_Witness ==
  /\ FourCall /\ last.hops = 0 /\ last.m = "error"
  /\ instances[last.id].ns = Root /\ instances[last.id].n = 2
  /\ CacheHas(Foo) /\ Len(last.sink) = 1

\* C2: without force every lookup of a namespace returns the same instance,
\* so there is one instance object per namespace, the cache maps the
\* namespace to it, hub(ns, level) sets its level, and a call through any
\* handle of the namespace is gated by the level of that one instance.
C2_InstanceIdentity ==
  /\ \A i, j \in Ids : instances[i].ns = instances[j].ns => i = j
  /\ \A k \in 1..Len(cache) : instances[cache[k].id].ns = cache[k].ns
  /\ last.op = "hub" =>
        /\ last.ret = CacheGet(last.ns)
        /\ (last.level.has /\ last.level.l # "") => instances[last.ret].n = IndexOf(last.level.l)
  /\ (FourCall /\ last.hops = 0 /\ last.threw = "none") =>
        (Len(last.sink) = 1 <=> instances[CacheGet(instances[last.id].ns)].n <= IndexOf(last.m))

\* A second lookup hub("foo", "warn") returned the cached instance and set its level
C2_Witness ==
  /\ last.op = "hub" /\ ~last.fresh /\ last.ns = Foo /\ last.level = Level("warn")
  /\ instances[last.ret].n = 2

\* C4: hub(false) and hub(true) change the switch only: every instance and
\* its level, the registry, the buffer, the defaults, the rules and the
\* time marks are as before, and these are all a call with the switch on
\* depends on.
C4_SwitchFrame ==
  [][last'.op = "switch" =>
       /\ instances' = instances /\ cache' = cache /\ BUFFER' = BUFFER
       /\ DEFAULTS' = DEFAULTS /\ DEBUGS_ALL' = DEBUGS_ALL /\ DEBUGS_STAR' = DEBUGS_STAR
       /\ marks' = marks /\ env' = env]_vars

\* The switch was turned on with a level set, foo registered and an entry buffered
C4_Witness ==
  /\ last.op = "switch" /\ last.b /\ CacheHas(Foo)
  /\ instances[CacheGet(Foo)].n = 2 /\ BUFFER # <<>>

\* C10 (as stated): setting a level that is no level name does not raise (the
\* ordinal becomes -1), and then, with the switch on, every debug, info, warn
\* and error call on the instance emits.
C10_InvalidLevel ==
  /\ (last.op = "level" /\ IndexOf(last.level) = -1) => instances[last.id].n = -1
  /\ (last.op = "hub" /\ last.level.has /\ IndexOf(last.level.l) = -1) => instances[last.ret].n = -1
  /\ (FourCall /\ instances[last.id].n = -1) => (Len(last.sink) = 1 /\ last.sink[1].m = last.m)

\* C10 (amended): the same, for a level given to hub() that is not the empty
\* string (hub() ignores an empty level), and for every call the instance
\* handles itself (one that auto-discovery does not route to another
\* instance) and that does not raise.
C10_InvalidLevelHandled ==
  /\ (last.op = "level" /\ IndexOf(last.level) = -1) => instances[last.id].n = -1
  /\ (last.op = "hub" /\ last.level.has /\ last.level.l # "" /\ IndexOf(last.level.l) = -1) =>
       instances[last.ret].n = -1
  /\ (FourCall /\ last.hops = 0 /\ last.threw = "none" /\ instances[last.id].n = -1) =>
       (Len(last.sink) = 1 /\ last.sink[1].m = last.m)

\* foo, whose level is no level name, emits a debug call
C10_Witness ==
  /\ FourCall /\ last.hops = 0 /\ last.m = "debug"
  /\ instances[last.id].ns = Foo /\ instances[last.id].n = -1 /\ LevelAt(instances[last.id].n) = Undef
  /\ Len(last.sink) = 1

\* C14: setting the level of an instance, by the setter or by hub(ns, level),
\* leaves the level of every other instance as it was, ROOT included.
C14_LevelIsolation ==
  [][/\ last'.op = "level" =>
          \A j \in Ids : j # last'.id => instances'[j].n = instances[j].n
     /\ last'.op = "hub" =>
          \A j \in Ids : j # last'.ret => instances'[j].n = instances[j].n]_vars

\* foo was set to off while ROOT was, and still is, at debug
C14_Witness ==
  /\ last.op = "level" /\ last.level = "off" /\ instances[last.id].ns = Foo
  /\ instances[last.id].n = 5 /\ instances[1].n = 0

----------------------------------------------------------------------------
(* Claims checked under SpecRules                                          *)

\* The last operation was hub(ns) creating an instance, no level given
FreshHub == last.op = "hub" /\ last.fresh /\ ~last.level.has

\* A rule matches a namespace: the same name, or a prefix followed by "*"
\* (a bare "*" is the empty prefix)
RuleMatches(r, ns) == r = ns \/ (EndsWithStar(r) /\ StartsWith(ns, DropLast(r)))

\* C5 (as stated): right after setup() has installed new patterns, the level
\* of every already-created instance is the level the rules now give its
\* namespace.  ROOT is left aside: module load sets its level explicitly.
C5_Propagation ==
  (last.op = "setup" /\ last.debugs.has /\ last.debugs.s # <<>>) =>
    \A k \in 2..Len(cache) : instances[cache[k].id].n = InitialN(cache[k].ns)

\* The rule set of a level as the environment gives it; the debug rules are
\* the ones setup() may have replaced
C6_RuleSet(level) ==
  LET v == CASE level = "off" -> env.OFF [] level = "error" -> env.ERROR
             [] level = "warn" -> env.WARN [] level = "info" -> env.INFO
  IN IF level = "debug" THEN DEBUGS_ALL
     ELSE IF v.has THEN Range(ParseRules(v.s)) ELSE {}

C6_Has(level, ns) == \E r \in C6_RuleSet(level) : RuleMatches(r, ns)

\* The first level, from off down to debug, that has a rule matching ns
C6_Effective(ns) ==
  IF C6_Has("off", ns) THEN "off"
  ELSE IF C6_Has("error", ns) THEN "error"
  ELSE IF C6_Has("warn", ns) THEN "warn"
  ELSE IF C6_Has("info", ns) THEN "info"
  ELSE IF C6_Has("debug", ns) THEN "debug"
  ELSE DEFAULTS.defaultLevel

\* C6 (as stated): the level of a namespace is the first level, scanning from
\* off down to debug, whose rule set (DEBUG, INFO, WARN, ERROR, OFF) has a
\* rule matching it: off:"*" with debug:"foo" gives foo off, warn:"pkg2*"
\* gives pkg2 warn.
C6_Precedence ==
  FreshHub => instances[last.ret].n = IndexOf(C6_Effective(last.ns))

\* C7: an instance created by hub(ns) without a level starts at debug when a
\* debug rule matches ns (the same name, a prefix rule, or "*") and at the
\* default level otherwise; under a default other than debug, "f*" gives
\* debug to foo and far, not to bar, and "foo" gives it to foo only.
C7_InitialLevel ==
  /\ FreshHub =>
        instances[last.ret].n =
          IF \E r \in DEBUGS_ALL : RuleMatches(r, last.ns) THEN 0 ELSE IndexOf(DEFAULTS.defaultLevel)
  /\ (FreshHub /\ DEBUGS_ALL = {<<"f", "*">>}) =>
        (instances[last.ret].n = 0 <=> last.ns \in {Foo, Far})
  /\ (FreshHub /\ DEBUGS_ALL = {Foo}) =>
        (instances[last.ret].n = 0 <=> last.ns = Foo)

\* With the rule "f*", far starts at debug
C7_Witness ==
  /\ FreshHub /\ last.ns = Far /\ DEBUGS_ALL = {<<"f", "*">>}
  /\ instances[last.ret].n = 0 /\ DEFAULTS.defaultLevel = "warn"

\* C17 (as stated): setup() with an undefined or empty rule string removes
\* every debug rule, so that a namespace created afterwards starts at the
\* default level.
C17_Clearing ==
  /\ (last.op = "setup" /\ (~last.debugs.has \/ last.debugs.s = <<>>)) =>
        (DEBUGS_ALL = {} /\ DEBUGS_STAR = <<>>)
  /\ (last.op = "setup" /\ (~last.debugs.has \/ last.debugs.s = <<>>)) =>
        \A ns \in {Foo, Far, Bar, Pkg2} : InitialN(ns) = IndexOf(DEFAULTS.defaultLevel)

----------------------------------------------------------------------------
(* Claims checked under SpecBuffer                                         *)

\* C8 (as stated): starting from an empty buffer with buffering on, every
\* emitted call appends one entry; the calls that bring the buffer to
\* 1..1000 entries complete and reach the sink, the call that makes it 1001
\* raises, so that the first 1000 emitted calls complete and the 1001st
\* raises.
C8_Overflow ==
  (last.op = "call" /\ last.pushed >= 1) =>
    /\ last.pushed = 1
    /\ last.threw = "Error" <=> Len(BUFFER) > BufferCap
    /\ Len(BUFFER) <= BufferCap => (last.threw = "none" /\ Len(last.sink) = 1)
    /\ Len(BUFFER) > BufferCap => last.sink = <<>>

\* C9 (as stated): in every reachable state the buffer holds at most 1000 entries.
C9_BufferCap == Len(BUFFER) <= BufferCap

----------------------------------------------------------------------------
(* Claims checked under SpecRoute                                          *)

\* t occurs in s as a run of consecutive tokens
Contains(s, t) == \E k \in 0..(Len(s) - Len(t)) : SubSeq(s, k + 1, k + Len(t)) = t

EndsWith(s, t) == Len(t) <= Len(s) /\ SubSeq(s, Len(s) - Len(t) + 1, Len(s)) = t

\* The last operation was a call of one of the four methods on the root
\* instance, switch on
RootCall == FourCall /\ instances[last.id].ns = Root

\* The file of the caller of the last call
CallerFile == FileOf(last.line.s)

\* The k-th registered instance has a root option that prefixes the file
Rooted(k, file) ==
  LET o == instances[cache[k].id].options IN Has(o, "root") /\ StartsWith(file, o.root)

\* The file is located under the directory root: root is "" (every path),
\* or the file's path is root followed by a "/" (or root itself)
Under(file, root) ==
  \/ root = <<>>
  \/ /\ StartsWith(file, root)
     /\ \/ root[Len(root)] = "/"
        \/ Len(file) = Len(root)
        \/ file[Len(root) + 1] = "/"

\* The k-th registered instance has a root option the file is located under
UnderRoot(k, file) ==
  LET o == instances[cache[k].id].options IN Has(o, "root") /\ Under(file, o.root)

\* C11 (as stated): a call of a gated method of the root instance from a file
\* located under the root path of a registered namespace is handled by the
\* instance of such a namespace: it does not raise, it emits iff that
\* instance's level lets the method through (whatever the root's level is),
\* and the buffered entry carries that namespace's prefix and the original
\* arguments.
C11_Routing ==
  (RootCall /\ CallerFile.has /\ \E k \in 1..Len(cache) : UnderRoot(k, CallerFile.s)) =>
    LET h == last.handler
    IN /\ last.threw = "none"
       /\ h # last.id /\ last.hops = 1
       /\ \E k \in 1..Len(cache) : cache[k].id = h /\ UnderRoot(k, CallerFile.s)
       /\ Len(last.sink) = 1 <=> instances[h].n <= IndexOf(last.m)
       /\ Len(last.sink) = 0 <=> instances[h].n > IndexOf(last.m)
       /\ DEFAULTS.buffer => last.pushed = Len(last.sink)
       /\ last.pushed = 1 =>
            LET e == BUFFER[Len(BUFFER)]
            IN /\ e.level = last.m
               /\ EndsWith(e.args[1].v, ColorApply(instances[h].ns) \o <<" ">> \o last.args[1].v)
               /\ Tail(e.args) = Tail(last.args)

\* C15 (as stated): a gated call made without a stack line, or from a caller
\* that is not a file, does not raise on any instance, the root included;
\* when it passes the gate it emits without the file/line segment.
C15_MissingSite ==
  (FourCall /\ (~last.line.has \/ ~CallerFile.has)) =>
    /\ last.threw = "none"
    /\ instances[last.handler].n <= IndexOf(last.m) =>
         (Len(last.sink) = 1 /\ ~Contains(last.sink[1].args[1].v, <<"<u>">>))

\* C20: a call on the root instance is handled by the first instance, in
\* registration order, whose root option is a prefix of the caller's file;
\* an instance whose options have no root is never chosen; when there is no
\* such instance the root handles the call itself, gated by its own level,
\* and the message carries no namespace.
C20_Order ==
  (RootCall /\ CallerFile.has) =>
    LET hits == {k \in 1..Len(cache) : Rooted(k, CallerFile.s)}
    IN /\ last.threw = "none"
       /\ hits # {} =>
            /\ last.handler = cache[CHOOSE k \in hits : \A j \in hits : k <= j].id
            /\ Has(instances[last.handler].options, "root")
       /\ hits = {} =>
            /\ last.handler = last.id /\ last.hops = 0
            /\ Len(last.sink) = 1 <=> instances[last.id].n <= IndexOf(last.m)
            /\ Len(last.sink) = 1 =>
                 /\ ~Contains(last.sink[1].args[1].v, <<"<bold>">>)
                 /\ EndsWith(last.sink[1].args[1].v, last.args[1].v)

\* foo (root /p) was registered before bar (root /p/x): a call from
\* /p/x/c.ts goes to foo
C20_Witness ==
  /\ RootCall /\ last.line = LineSub /\ Len(cache) = 3
  /\ cache[2].ns = Foo /\ Rooted(2, CallerFile.s) /\ Rooted(3, CallerFile.s)
  /\ instances[cache[3].id].options.root = SubRoot
  /\ last.handler = cache[2].id

----------------------------------------------------------------------------
(* Claims checked under SpecTrace                                          *)

\* C12 (as stated): when HUB is not "log", a call to log never appends to the buffer and
\* reaches the sink's log with its original arguments whatever the level of
\* the instance is; at level info, with buffering on, debug adds no entry,
\* info, warn and error add one entry each under their own name, and log adds
\* none, so debug, info, warn, error, log buffers exactly info, warn, error.
C12_LogUntouched ==
  /\ (last.op = "call" /\ last.m = "log" /\ env.HUB # Some(<<"log">>)) =>
        /\ last.threw = "none" /\ last.pushed = 0
        /\ last.sink = <<[m |-> "log", args |-> last.args]>>
  /\ (last.op = "call" /\ env.HUB # Some(<<"log">>) /\ DEFAULTS.buffer
        /\ last.handler = last.id /\ instances[last.id].n = 1) =>
        /\ last.pushed = (IF last.m \in {"info", "warn", "error"} THEN 1 ELSE 0)
        /\ last.pushed = 1 => BUFFER[Len(BUFFER)].level = last.m

\* The method is one the handling instance gates
GatedBy(h, m) == \E k \in 1..instances[h].max : Gated[k] = m

\* C16 (as stated): with buffering on, every call of a gated method that is emitted
\* appends one entry at the end of the buffer, tagged with the name of the
\* method called and holding the arguments given to the sink; a suppressed
\* call, and every other operation, leaves the buffer as it is.  So the
\* buffer is the sequence of the emitted calls, in call order.
C16_BufferTrace ==
  [][/\ (last'.op = "call" /\ DEFAULTS.buffer /\ GatedBy(last'.handler, last'.m)) =>
          BUFFER' = BUFFER \o (IF Len(last'.sink) = 1
                               THEN <<[level |-> last'.m, args |-> last'.sink[1].args]>>
                               ELSE <<>>)
     /\ (last'.op = "call" /\ GatedBy(last'.handler, last'.m)) =>
          (Len(last'.sink) = 1 <=> (instances[last'.handler].n <= IndexOf(last'.m) /\ onOff))
     /\ last'.op # "call" => BUFFER' = BUFFER]_vars

----------------------------------------------------------------------------
(* Claims checked under SpecTime                                           *)

\* The marks other than that of ns are as before
OtherMarksKept(ns) == \A k \in DOMAIN marks : k # ns => marks'[k] = marks[k]

\* C18 (as stated): the mark of a namespace is moved to the current time by every
\* emitted call it handles, with timeDiff on or off, and by its creation; a
\* suppressed call, the passing of time and setup() leave every mark alone.
\* With timeDiff on, the last argument of an emitted call is the current
\* time minus the mark of the namespace as it was before the call, which is
\* never negative.
C18_Elapsed ==
  [][/\ (last'.op = "call" /\ Len(last'.sink) = 1) =>
          LET ns == instances[last'.handler].ns
              out == last'.sink[1].args
          IN /\ marks'[ns] = now /\ OtherMarksKept(ns)
             /\ now - marks[ns] >= 0
             /\ OptionOr(instances[last'.handler].options, "timeDiff") =>
                  out[Len(out)] = StrV(Paint(color(ns), <<"+", ToString(now - marks[ns]), ".00", "ms">>))
             /\ ~OptionOr(instances[last'.handler].options, "timeDiff") =>
                  Len(out) = Len(last'.args)
     /\ (last'.op = "call" /\ Len(last'.sink) = 0) => marks' = marks
     /\ (last'.op = "hub" /\ last'.fresh) =>
          (marks'[last'.ns] = now /\ OtherMarksKept(last'.ns))
     /\ (last'.op = "hub" /\ ~last'.fresh) => marks' = marks
     /\ last'.op \in {"tick", "setup"} => marks' = marks]_vars

----------------------------------------------------------------------------
(* Claims checked under SpecArgs                                           *)

\* C19 (as stated): in the list given to the sink, the elapsed time left
\* aside, a first raw argument that is a string has the prefix spliced in
\* front of it (with one space, none for "*") and the list is as long as
\* the raw one; otherwise (an object, a number, null, no argument) the
\* prefix is a leading argument of its own and the raw arguments follow in
\* their order (an object shown through inspect when compact is on).
C19_PrefixAssembly ==
  (last.op = "call" /\ Len(last.sink) = 1 /\ GatedBy(last.handler, last.m)) =>
    LET h     == instances[last.handler]
        raw   == last.args
        out0  == last.sink[1].args
        out   == IF OptionOr(h.options, "timeDiff") THEN DropLast(out0) ELSE out0
        sep   == IF h.ns = Root THEN <<>> ELSE <<" ">>
        name  == IF h.ns = Root THEN <<>> ELSE ColorApply(h.ns)
        shown == [k \in 1..Len(raw) |->
                    IF OptionOr(h.options, "compact") /\ raw[k].t = "object"
                    THEN Inspect(raw[k]) ELSE raw[k]]
    IN IF raw # <<>> /\ raw[1].t = "string"
       THEN /\ Len(out) = Len(raw)
            /\ out[1].t = "string" /\ EndsWith(out[1].v, name \o sep \o raw[1].v)
            /\ Tail(out) = Tail(shown)
       ELSE /\ Len(out) = Len(raw) + 1
            /\ out[1].t = "string" /\ EndsWith(out[1].v, name)
            /\ Tail(out) = shown

----------------------------------------------------------------------------
(* Claims checked under SpecLevels                                         *)

\* C21: setup(), with any patterns and options (a new default level
\* included), leaves the level of every instance as it was, so a level set
\* by the setter or by hub(ns, level) survives it.
C21_ExplicitPriority ==
  [][last'.op = "setup" =>
       /\ Len(instances') = Len(instances)
       /\ \A j \in Ids : instances'[j].n = instances[j].n]_vars

\* foo was set to warn; setup({defaultLevel: "error"}, "*") then made the
\* rules give foo debug, and foo is still at warn
C21_Witness ==
  /\ last.op = "setup" /\ last.debugs = Some(<<"*">>) /\ Has(last.options, "defaultLevel")
  /\ CacheHas(Foo) /\ instances[CacheGet(Foo)].n = 2 /\ InitialN(Foo) = 0

\* C25: hub(ns, level, options, true) puts a newly created instance in the
\* registry entry of ns, at the level the current rules and default give ns
\* unless a level is given; a later lookup without force returns it; the
\* instances that existed keep their level, whatever is set on the new one;
\* the other registry entries stay and no entry is lost.
C25_ForceRecreate ==
  [][/\ (last'.op = "hub" /\ last'.force) =>
          /\ last'.ret = Len(instances) + 1 /\ Len(instances') = Len(instances) + 1
          /\ instances'[last'.ret].ns = last'.ns
          /\ instances'[last'.ret].n =
               (IF last'.level.has /\ last'.level.l # "" THEN IndexOf(last'.level.l) ELSE InitialN(last'.ns))
          /\ \E k \in 1..Len(cache') : cache'[k] = [ns |-> last'.ns, id |-> last'.ret]
          /\ \A j \in Ids : instances'[j] = instances[j]
          /\ \A k \in 1..Len(cache) : cache[k].ns # last'.ns => cache'[k] = cache[k]
     /\ (last'.op = "hub" /\ ~last'.force /\ CacheHas(last'.ns)) =>
          (last'.ret = CacheGet(last'.ns) /\ cache' = cache)
     /\ last'.op = "level" =>
          \A j \in Ids : j # last'.id => instances'[j].n = instances[j].n
     /\ Len(cache') >= Len(cache)
     /\ \A k \in 1..Len(cache) : cache'[k].ns = cache[k].ns]_vars

\* foo was re-created by force; the new instance was then set to off, and
\* the old one is still at warn
C25_Witness ==
  /\ last.op = "level" /\ last.level = "off" /\ Len(instances) = 3
  /\ instances[2].ns = Foo /\ instances[3].ns = Foo /\ CacheGet(Foo) = 3
  /\ last.id = 3 /\ instances[3].n = 5 /\ instances[2].n = 2

----------------------------------------------------------------------------
(* Claims checked under SpecColor                                          *)

\* The hash of the claim, computed on words of 32 bits, lowest bit first
WordBits == 32

RECURSIVE ToBits(_, _)
ToBits(n, w) == IF w = 0 THEN <<>> ELSE <<n % 2>> \o ToBits(n \div 2, w - 1)

\* a + b on words, the carry out of the highest bit dropped
RECURSIVE AddBits(_, _, _)
AddBits(a, b, carry) ==
  IF a = <<>> THEN <<>>
  ELSE LET t == a[1] + b[1] + carry
       IN <<t % 2>> \o AddBits(Tail(a), Tail(b), t \div 2)

\* a * 33 = (a << 5) + a
Times33(a) == AddBits([k \in 1..WordBits |-> IF k <= 5 THEN 0 ELSE a[k - 5]], a, 0)

XorBits(a, b) == [k \in 1..WordBits |-> (a[k] + b[k]) % 2]

RECURSIVE RefHash(_, _)
RefHash(h, s) ==
  IF s = <<>> THEN h
  ELSE RefHash(XorBits(Times33(h), ToBits(CharCode(s[1]), WordBits)), Tail(s))

\* The value of a word modulo m, from the highest bit down
RECURSIVE ModBits(_, _, _)
ModBits(a, k, m) == IF k = 0 THEN 0 ELSE (2 * ModBits(a, k - 1, m) + a[WordBits - k + 1]) % m

\* C22: color(s) is H(s) mod 5, H being the djb2-xor hash from 5381 with
\* every step wrapped to 32 bits; it is in 0..4, and it is a function of s
\* alone (the call reads and changes no state, so a second call gives the
\* same index).
C22_ColourIndex ==
  last.op = "color" =>
    /\ last.i = ModBits(RefHash(ToBits(5381, WordBits), last.ns), WordBits, Len(COLORS))
    /\ last.i \in 0..4
    /\ color(last.ns) = last.i

\* color("foo:a") was computed: its hash, 171160376 after wrapping, gives 1
C22_Witness == last.op = "color" /\ last.ns = <<"f", "o", "o", ":", "a">> /\ last.i = 1

----------------------------------------------------------------------------
(* Claims checked under SpecIcons                                          *)

\* The last operation was a call of a gated method that passed the gate
PassedCall ==
  /\ last.op = "call" /\ GatedBy(last.handler, last.m)
  /\ instances[last.handler].n <= IndexOf(last.m) /\ onOff

\* C23 (as stated): with the icons option enabled, a call that passes the
\* gate does not raise, and its first argument starts with the icon of the
\* method called and one space: the default icon of that level for true,
\* the entry at the level's index for a list that has one, the whole string
\* for a string.
C23_Icons ==
  (PassedCall /\ OptionOr(instances[last.handler].options, "icons").on) =>
    LET icons == OptionOr(instances[last.handler].options, "icons")
        i     == IndexOf(last.m)
    IN /\ last.threw = "none" /\ Len(last.sink) = 1
       /\ icons.kind = "bool" => StartsWith(last.sink[1].args[1].v, <<ICONS[i + 1], " ">>)
       /\ (icons.kind = "list" /\ i < Len(icons.items)) =>
            StartsWith(last.sink[1].args[1].v, <<icons.items[i + 1], " ">>)
       /\ icons.kind = "string" => StartsWith(last.sink[1].args[1].v, icons.items \o <<" ">>)

----------------------------------------------------------------------------
(* Root paths, checked under SpecRoute                                     *)

\* C24 (as stated): the root option of every registered instance that has
\* one is an absolute, resolved path, whether it was given when the instance
\* was created or assigned by hub() to an instance already cached.
C24_RootResolved ==
  \A k \in 1..Len(cache) :
    LET o == instances[cache[k].id].options
    IN (Has(o, "root") /\ o.root # <<>>) => (o.root[1] = "/" /\ o.root = Resolve(o.root))

----------------------------------------------------------------------------
(* Claims checked under SpecSwitch                                         *)

\* C26: a call of trace, on any instance at any level (off included),
\* forwards its arguments unchanged to the sink's trace iff the switch is
\* on; it does not raise, appends nothing to the buffer and leaves every
\* time mark where it was.
C26_TraceSwitchOnly ==
  [][(last'.op = "call" /\ last'.m = "trace") =>
       /\ last'.threw = "none" /\ last'.handler = last'.id /\ last'.hops = 0
       /\ onOff => last'.sink = <<[m |-> "trace", args |-> last'.args]>>
       /\ ~onOff => last'.sink = <<>>
       /\ last'.pushed = 0 /\ BUFFER' = BUFFER
       /\ marks' = marks]_vars

\* foo at off, buffering on, the clock past foo's mark: trace reached the
\* sink with the object as it was passed
C26_Witness ==
  /\ last.op = "call" /\ last.m = "trace" /\ instances[last.id].ns = Foo
  /\ instances[last.id].n = 5 /\ onOff /\ DEFAULTS.buffer
  /\ Len(last.sink) = 1 /\ last.sink[1].args = TwoArgs
  /\ now > marks[Foo] /\ BUFFER = <<>>

----------------------------------------------------------------------------
(* Claims checked under SpecSelf                                           *)

\* C28 (as stated): every call of a gated method of the root instance from
\* a file completes after at most one delegation, whatever is registered
\* and whatever root options are set, a root on "*" itself included: the
\* instance found handles the call and does not delegate again.
C28_OneHop ==
  (/\ last.op = "call" /\ instances[last.id].ns = Root /\ CallerFile.has
   /\ \E k \in 1..instances[last.id].max : Gated[k] = last.m) =>
    /\ last.threw = "none"
    /\ last.hops <= 1

----------------------------------------------------------------------------
(* Claims checked under SpecOptions                                        *)

\* C27: a call that passes the gate appends an entry iff the buffer option
\* of the handling instance is true or the default buffer option is true
\* (an instance option false does not switch a true default off); an
\* instance option fileLine, timeDiff, compact or icons that is set decides
\* alone, whatever the default is.
C27_BufferEither ==
  PassedCall =>
    LET o   == instances[last.handler].options
        out == last.sink[1].args
    IN /\ last.threw = "none" /\ Len(last.sink) = 1
       /\ last.pushed = 1 <=> ((Has(o, "buffer") /\ o.buffer) \/ DEFAULTS.buffer)
       /\ last.pushed = 0 <=> ~((Has(o, "buffer") /\ o.buffer) \/ DEFAULTS.buffer)
       /\ Has(o, "fileLine") => (Contains(out[1].v, <<"<u>">>) <=> o.fileLine)
       /\ Has(o, "timeDiff") => (Len(out) = Len(last.args) + 1 <=> o.timeDiff)
       /\ Has(o, "compact") => (out[2] = Inspect(last.args[2]) <=> o.compact)
       /\ Has(o, "icons") => (StartsWith(out[1].v, <<ICONS[IndexOf(last.m) + 1], " ">>) <=> o.icons.on)

\* foo has every option off, buffer included, and the defaults have every
\* option on: its call is buffered, without file/line, time, inspect or icon
C27_Witness ==
  /\ PassedCall /\ instances[last.handler].ns = Foo
  /\ instances[last.handler].options = Assign(AllOff, [buffer |-> FALSE])
  /\ DEFAULTS.buffer /\ DEFAULTS.fileLine /\ DEFAULTS.timeDiff /\ DEFAULTS.compact /\ DEFAULTS.icons.on
  /\ last.pushed = 1 /\ Len(last.sink[1].args) = 2 /\ last.sink[1].args[2] = last.args[2]

----------------------------------------------------------------------------
(* Claims checked under SpecLog                                            *)

\* C3 (as stated): while the switch is off no call to debug, info, warn,
\* error or log, on any instance, invokes the sink or appends to the buffer.
C3_SwitchOff ==
  (last.op = "call" /\ ~onOff /\ last.m \in FourMethods \cup {"log"}) =>
    (last.sink = <<>> /\ last.pushed = 0)

\* C13 (as stated): for an instance created while HUB is "log" whose level is
\* "log", with the switch on, calls to debug, info, warn and error are
\* suppressed, and a call to log emits and is buffered under the name "log".
C13_LogGated ==
  (last.op = "call" /\ onOff /\ instances[last.id].max = 5 /\ instances[last.id].n = IndexOf("log")) =>
    /\ last.m \in FourMethods => (last.sink = <<>> /\ last.pushed = 0)
    /\ last.m = "log" =>
         /\ Len(last.sink) = 1 /\ last.sink[1].m = "log"
         /\ DEFAULTS.buffer => (last.pushed = 1 /\ BUFFER[Len(BUFFER)].level = "log")

====
